---- MODULE Spec2Model ----
(***************************************************************************)
(* Model of app.py: the Flask handler index() that runs the pipeline       *)
(* extract -> summarize -> translate -> synthesize for an uploaded PDF,    *)
(* and serve_audio() that serves the generated audio files.                *)
(*                                                                         *)
(* Python strings, byte strings and file names are sequences of tokens.    *)
(* Python values that may be None are records: None, or Str(s).            *)
(* A request handler is split into steps at its accesses to the shared     *)
(* filesystem (uploads/ and static/audio/); the steps of two handlers      *)
(* interleave as the threads of the web server do.                         *)
(***************************************************************************)
EXTENDS Integers, Sequences, FiniteSets, TLC

\* ------------------------------------------------------------ bounds
MaxPages == 2
MaxAudioLen == 2

\* ------------------------------------------------------------ program constants
retries == 5
InitialDelay == 2

UPLOAD_FOLDER == "uploads"
AUDIO_FOLDER == "static/audio"
DefaultLanguage == "hi"

\* ------------------------------------------------------------ values
Requests == {"r1", "r2"}

None == [tag |-> "None"]
Str(s) == [tag |-> "str", val |-> s]

\* A check `is not None` in place of truthiness: the empty string passes.
Truthy_mut(v) == v.tag = "str"

\* Python truthiness of an optional string: None and "" are falsy.
Truthy(v) == v.tag = "str" /\ v.val # <<>>

NoFile == [exists |-> FALSE]
File(d) == [exists |-> TRUE, data |-> d]

SeqsUpTo(S, n) == UNION {[1..k -> S] : k \in 0..n}

\* Texts a page can yield: nothing, a blank, a word.
PageTexts == {<<>>, <<" ">>, <<"a">>}

Unreadable == [readable |-> FALSE]
Pdf(pages) == [readable |-> TRUE, pages |-> pages]
Docs == {Unreadable} \cup {Pdf(p) : p \in SeqsUpTo(PageTexts, MaxPages)}

PdfA == <<"a", ".", "p", "d", "f">>
PdfB == <<"b", ".", "p", "d", "f">>
TxtA == <<"a", ".", "t", "x", "t">>
PdfSuffix == <<".", "p", "d", "f">>
UploadNames == {PdfA, PdfB}
Filenames == {<<>>, TxtA} \cup UploadNames

LanguageCodes == {"hi", "ta"}
FormLanguages == LanguageCodes \cup {"absent"}

\* The audio of a request is made of a byte value of its own, so that the
\* pieces of two requests' audio can be told apart in a file.
AudioByte(r) == IF r = "r1" THEN "x" ELSE "y"
Payloads(r) == SeqsUpTo({AudioByte(r)}, MaxAudioLen)
OldAudio == <<"o">>

\* A request as the client sends it.
NoRequest == [method |-> "none"]
GetRequest == [method |-> "GET"]
PostNoPart == [method |-> "POST", has_part |-> FALSE]
Post(fn, lang, doc) ==
    [method |-> "POST", has_part |-> TRUE, filename |-> fn,
     language_code |-> lang, doc |-> doc]
PostRequests == {Post(fn, l, d) : fn \in Filenames, l \in FormLanguages, d \in Docs}

\* ------------------------------------------------------------ pure functions
\* str.endswith
EndsWith(s, suffix) ==
    /\ Len(s) >= Len(suffix)
    /\ SubSeq(s, Len(s) - Len(suffix) + 1, Len(s)) = suffix

\* os.path.join(folder, name)
PathJoin(folder, name) == <<folder, "/">> \o name

\* request.form.get('language_code', 'hi')
FormGet(r) == IF r.language_code = "absent" THEN DefaultLanguage ELSE r.language_code

\* A file name that leaves the language code out.
AudioFilename_mut(lang) == <<"summary_", DefaultLanguage, ".mp3">>

\* f"summary_{language_code}.mp3"
AudioFilename(lang) == <<"summary_", lang, ".mp3">>
AudioNames == {AudioFilename(l) : l \in LanguageCodes}

\* A loop without `if page_text`: every page adds its text and a newline.
RECURSIVE ConcatPages_mut(_)
ConcatPages_mut(pages) ==
    IF pages = <<>> THEN <<>>
    ELSE Head(pages) \o <<"\n">> \o ConcatPages_mut(Tail(pages))

\* extract_text_from_pdf, lines 45-50: the loop over reader.pages.
RECURSIVE ConcatPages(_)
ConcatPages(pages) ==
    IF pages = <<>> THEN <<>>
    ELSE LET page_text == Head(pages)
             rest == ConcatPages(Tail(pages))
         IN IF page_text # <<>> THEN page_text \o <<"\n">> \o rest ELSE rest

\* extract_text_from_pdf: the file at the path as it is when it is opened.
extract_text_from_pdf(file) ==
    IF ~file.exists \/ ~file.data.readable THEN None
    ELSE Str(ConcatPages(file.data.pages))

IsWhitespace(s) == \A k \in 1..Len(s) : s[k] \in {" ", "\n"}

Max(a, b) == IF a >= b THEN a ELSE b

\* A write of bs at position off of a file holding data; a position past
\* the end leaves a hole of NUL bytes.
WriteAt(data, off, bs) ==
    [k \in 1..Max(Len(data), off + Len(bs)) |->
        IF k > off /\ k <= off + Len(bs) THEN bs[k - off]
        ELSE IF k <= Len(data) THEN data[k] ELSE "nul"]

\* ------------------------------------------------------------ state
VARIABLES
    req,                \* the request of each client
    download,           \* the file name the downloading client asks for
    pc,                 \* the position of each handler
    uploads,            \* uploads/: file name -> file
    audio,              \* static/audio/: file name -> file
    document_text, english_summary, translated_summary, audio_file,
    i, delay,           \* loop variables of summarize_with_gemini
    slept,              \* the delays the summarizer has slept, in order
    attempts,           \* calls of generate_content made
    decoded_audio, offset, previous_audio,
    translate_response, \* what client.text.translate did for each handler
    audio_response,     \* what text_to_speech.convert did for each handler
    calls,              \* the components each handler has invoked, in order
    removed,            \* the file each handler deleted, if any
    response,           \* the response of each handler
    served              \* the last response of serve_audio

locals == <<document_text, english_summary, translated_summary, audio_file>>
loopvars == <<i, delay, slept, attempts>>
writer == <<decoded_audio, offset, previous_audio>>
answers == <<translate_response, audio_response>>
vars == <<req, download, pc, uploads, audio, locals, loopvars, writer, answers, calls,
          removed, response, served>>

Reply(status, body) == [status |-> status, body |-> body]
Page(summary, audio_url) ==
    [status |-> 200, body |-> "result", summary |-> summary, audio_url |-> audio_url]

pdf_path(r) == PathJoin(UPLOAD_FOLDER, req[r].filename)
language_code(r) == FormGet(req[r])
audio_filename(r) == AudioFilename(language_code(r))

InitWith(R) ==
    /\ req \in [Requests -> {GetRequest, PostNoPart, NoRequest} \cup PostRequests]
    /\ \A r \in Requests : IF r \in R THEN req[r] # NoRequest ELSE req[r] = NoRequest
    /\ download \in AudioNames
    /\ pc = [r \in Requests |-> IF r \in R THEN "start" ELSE "none"]
    /\ uploads = [n \in UploadNames |-> NoFile]
    /\ audio \in [AudioNames -> {NoFile, File(OldAudio)}]
    /\ document_text = [r \in Requests |-> None]
    /\ english_summary = [r \in Requests |-> None]
    /\ translated_summary = [r \in Requests |-> None]
    /\ audio_file = [r \in Requests |-> None]
    /\ i = [r \in Requests |-> 0]
    /\ delay = [r \in Requests |-> 0]
    /\ slept = [r \in Requests |-> <<>>]
    /\ attempts = [r \in Requests |-> 0]
    /\ decoded_audio = [r \in Requests |-> <<>>]
    /\ offset = [r \in Requests |-> 0]
    /\ previous_audio = [r \in Requests |-> NoFile]
    /\ translate_response = [r \in Requests |-> None]
    /\ audio_response = [r \in Requests |-> None]
    /\ calls = [r \in Requests |-> <<>>]
    /\ removed = [r \in Requests |-> NoFile]
    /\ response = [r \in Requests |-> None]
    /\ served = None

\* One request, whatever it is, and one download.
Init == InitWith({"r1"})

\* Two concurrent uploads of readable PDFs with text, and one download. The
\* two handlers run the same code, so the first request is fixed and the
\* second ranges over equal and different file names, languages and texts.
ConcurrentRequests ==
    {Post(fn, l, Pdf(<<<<"a">>, <<"a">>>>)) : fn \in UploadNames, l \in LanguageCodes}
InitConcurrent ==
    /\ InitWith(Requests)
    /\ req["r1"] = Post(PdfA, "hi", Pdf(<<<<"a">>>>))
    /\ req["r2"] \in ConcurrentRequests
    /\ download = AudioFilename("ta")
    /\ \A n \in AudioNames : ~audio[n].exists

Finish(r, resp) ==
    /\ response' = [response EXCEPT ![r] = resp]
    /\ pc' = [pc EXCEPT ![r] = "done"]

\* A handler that saves the upload before it looks at the extension.
Index_mut(r) ==
    /\ pc[r] = "start"
    /\ UNCHANGED <<req, download, answers, audio, locals, loopvars, writer, calls, removed,
                   served>>
    /\ IF req[r].method # "POST" THEN
            Finish(r, Reply(200, "index")) /\ UNCHANGED uploads
       ELSE IF ~req[r].has_part THEN
            Finish(r, Reply(400, "No file part in the request.")) /\ UNCHANGED uploads
       ELSE IF req[r].filename = <<>> THEN
            Finish(r, Reply(400, "No file selected.")) /\ UNCHANGED uploads
       ELSE
            /\ uploads' = [n \in DOMAIN uploads \cup {req[r].filename} |->
                              IF n = req[r].filename THEN File(req[r].doc) ELSE uploads[n]]
            /\ IF EndsWith(req[r].filename, PdfSuffix)
               THEN pc' = [pc EXCEPT ![r] = "extract"] /\ UNCHANGED response
               ELSE Finish(r, Reply(200, "index"))

\* index(), lines 132-143: validation and file.save.
Index(r) ==
    /\ pc[r] = "start"
    /\ UNCHANGED <<req, download, answers, audio, locals, loopvars, writer, calls, removed, served>>
    /\ IF req[r].method # "POST" THEN
            Finish(r, Reply(200, "index")) /\ UNCHANGED uploads
       ELSE IF ~req[r].has_part THEN
            Finish(r, Reply(400, "No file part in the request.")) /\ UNCHANGED uploads
       ELSE IF req[r].filename = <<>> THEN
            Finish(r, Reply(400, "No file selected.")) /\ UNCHANGED uploads
       ELSE IF EndsWith(req[r].filename, PdfSuffix) THEN
            /\ uploads' = [uploads EXCEPT ![req[r].filename] = File(req[r].doc)]
            /\ pc' = [pc EXCEPT ![r] = "extract"]
            /\ UNCHANGED response
       ELSE Finish(r, Reply(200, "index")) /\ UNCHANGED uploads

\* index(), lines 145-147: extract_text_from_pdf(pdf_path) and its check.
Extract(r) ==
    /\ pc[r] = "extract"
    /\ LET text == extract_text_from_pdf(uploads[req[r].filename]) IN
        /\ calls' = [calls EXCEPT ![r] = Append(@, "extract")]
        /\ document_text' = [document_text EXCEPT ![r] = text]
        /\ IF ~Truthy(text)
           THEN Finish(r, Reply(400, "Could not extract text from the PDF."))
           ELSE pc' = [pc EXCEPT ![r] = "summarize"] /\ UNCHANGED response
    /\ UNCHANGED <<req, download, answers, uploads, audio, english_summary, translated_summary,
                   audio_file, loopvars, writer, removed, served>>

\* index(), line 149, and summarize_with_gemini, lines 55-67: the call and
\* the set-up of the retry loop.
Summarize(r) ==
    /\ pc[r] = "summarize"
    /\ calls' = [calls EXCEPT ![r] = Append(@, "summarize")]
    /\ i' = [i EXCEPT ![r] = 0]
    /\ delay' = [delay EXCEPT ![r] = InitialDelay]
    /\ pc' = [pc EXCEPT ![r] = "attempt"]
    /\ UNCHANGED <<req, download, answers, uploads, audio, locals, slept, attempts, writer, removed,
                   response, served>>

\* A loop that runs once more than range(retries).
InLoop_mut(k) == k <= retries

\* for i in range(retries): the loop goes on while i < retries.
InLoop(k) == k < retries

\* delay *= 2
NextDelay(d) == d * 2

\* What response.text can be: a summary, or an empty text.
SummaryTexts == {<<"E">>, <<>>}

\* index(), lines 150-151, on the value summarize_with_gemini returned.
SummarizerReturns(r, value) ==
    /\ english_summary' = [english_summary EXCEPT ![r] = value]
    /\ IF ~Truthy(value)
       THEN Finish(r, Reply(500, "Error: Could not generate summary from Gemini."))
       ELSE pc' = [pc EXCEPT ![r] = "translate"] /\ UNCHANGED response

\* Lines 69-71: generate_content answers and its text is returned.
AttemptSucceeds(r) ==
    /\ pc[r] = "attempt"
    /\ InLoop(i[r])
    /\ attempts' = [attempts EXCEPT ![r] = @ + 1]
    /\ \E text \in SummaryTexts : SummarizerReturns(r, Str(text))
    /\ UNCHANGED <<req, download, answers, uploads, audio, document_text, translated_summary, audio_file,
                   i, delay, slept, writer, calls, removed, served>>

\* A summarizer that does not return when the attempts are used up: after
\* the last sleep it waits for a retry that never comes.
AttemptRateLimited_mut(r) ==
    /\ pc[r] = "attempt"
    /\ InLoop(i[r])
    /\ attempts' = [attempts EXCEPT ![r] = @ + 1]
    /\ slept' = [slept EXCEPT ![r] = Append(@, delay[r])]
    /\ delay' = [delay EXCEPT ![r] = NextDelay(@)]
    /\ i' = [i EXCEPT ![r] = @ + 1]
    /\ UNCHANGED <<pc, response, english_summary>>
    /\ UNCHANGED <<req, download, answers, uploads, audio, document_text,
                   translated_summary, audio_file, writer, calls, removed, served>>

\* Lines 72-75 (and 80-81 when the loop ends): generate_content raises
\* ResourceExhausted; the handler sleeps delay seconds and doubles the delay.
AttemptRateLimited(r) ==
    /\ pc[r] = "attempt"
    /\ InLoop(i[r])
    /\ attempts' = [attempts EXCEPT ![r] = @ + 1]
    /\ slept' = [slept EXCEPT ![r] = Append(@, delay[r])]
    /\ delay' = [delay EXCEPT ![r] = NextDelay(@)]
    /\ i' = [i EXCEPT ![r] = @ + 1]
    /\ IF InLoop(i[r] + 1)
       THEN UNCHANGED <<pc, response, english_summary>>
       ELSE SummarizerReturns(r, None)
    /\ UNCHANGED <<req, download, answers, uploads, audio, document_text, translated_summary, audio_file,
                   writer, calls, removed, served>>

\* An except block that goes on with the loop in place of returning None.
AttemptFails_mut(r) ==
    /\ pc[r] = "attempt"
    /\ InLoop(i[r])
    /\ attempts' = [attempts EXCEPT ![r] = @ + 1]
    /\ i' = [i EXCEPT ![r] = @ + 1]
    /\ IF InLoop(i[r] + 1)
       THEN UNCHANGED <<pc, response, english_summary>>
       ELSE SummarizerReturns(r, None)
    /\ UNCHANGED <<req, download, answers, uploads, audio, document_text, translated_summary,
                   audio_file, delay, slept, writer, calls, removed, served>>

\* Lines 76-78: generate_content raises any other exception.
AttemptFails(r) ==
    /\ pc[r] = "attempt"
    /\ InLoop(i[r])
    /\ attempts' = [attempts EXCEPT ![r] = @ + 1]
    /\ SummarizerReturns(r, None)
    /\ UNCHANGED <<req, download, answers, uploads, audio, document_text, translated_summary, audio_file,
                   i, delay, slept, writer, calls, removed, served>>

\* What client.text.translate can do: raise, or answer with or without the
\* attribute translated_text.
TranslateOutcomes ==
    {[raised |-> TRUE], [raised |-> FALSE, has_text |-> FALSE]}
    \cup {[raised |-> FALSE, has_text |-> TRUE, translated_text |-> t] : t \in {<<"T">>, <<>>}}

\* A translator that takes a response without translated_text for a failure.
translate_with_sarvam_mut(out) ==
    IF out.raised THEN None
    ELSE IF out.has_text THEN Str(out.translated_text)
    ELSE None

\* translate_with_sarvam, lines 85-98; str(response) is the text <<"R">>.
translate_with_sarvam(out) ==
    IF out.raised THEN None
    ELSE IF out.has_text THEN Str(out.translated_text)
    ELSE Str(<<"R">>)

\* index(), lines 153-155.
Translate(r) ==
    /\ pc[r] = "translate"
    /\ calls' = [calls EXCEPT ![r] = Append(@, "translate")]
    /\ \E out \in TranslateOutcomes :
        LET value == translate_with_sarvam(out) IN
        /\ translate_response' = [translate_response EXCEPT ![r] = out]
        /\ translated_summary' = [translated_summary EXCEPT ![r] = value]
        /\ IF ~Truthy(value)
           THEN Finish(r, Reply(500, "Error: Could not translate summary using Sarvam AI."))
           ELSE pc' = [pc EXCEPT ![r] = "synthesize"] /\ UNCHANGED response
    /\ UNCHANGED <<req, download, audio_response, uploads, audio, document_text, english_summary, audio_file,
                   loopvars, writer, removed, served>>

\* What text_to_speech.convert and the decoding can do: raise, answer
\* without audio data (audios absent or empty), or yield the bytes that
\* b64decode gives of the joined chunks.
SpeechOutcomes(r) ==
    {[kind |-> "raised"], [kind |-> "no_audios"]}
    \cup {[kind |-> "audio", decoded |-> p] : p \in Payloads(r)}

\* A synthesizer without the test of audio_response.audios: with no audio
\* data it joins no chunks and writes an empty file.
Synthesize_mut(r) ==
    /\ pc[r] = "synthesize"
    /\ calls' = [calls EXCEPT ![r] = Append(@, "synthesize")]
    /\ \E out \in SpeechOutcomes(r) :
        /\ audio_response' = [audio_response EXCEPT ![r] = out]
        /\ IF out.kind \in {"audio", "no_audios"} THEN
            /\ decoded_audio' = [decoded_audio EXCEPT ![r] =
                  IF out.kind = "audio" THEN out.decoded ELSE <<>>]
            /\ previous_audio' = [previous_audio EXCEPT ![r] = audio[audio_filename(r)]]
            /\ offset' = [offset EXCEPT ![r] = 0]
            /\ audio' = [audio EXCEPT ![audio_filename(r)] = File(<<>>)]
            /\ pc' = [pc EXCEPT ![r] = "writing"]
            /\ UNCHANGED audio_file
           ELSE
            /\ audio_file' = [audio_file EXCEPT ![r] = None]
            /\ pc' = [pc EXCEPT ![r] = "remove"]
            /\ UNCHANGED <<audio, writer>>
    /\ UNCHANGED <<req, download, translate_response, uploads, document_text,
                   english_summary, translated_summary, loopvars, removed, response,
                   served>>

\* index(), lines 158-159, and generate_audio_with_sarvam, lines 102-118
\* down to open(audio_path, "wb"), which creates or truncates the file;
\* lines 121-126 when there is nothing to write.
Synthesize(r) ==
    /\ pc[r] = "synthesize"
    /\ calls' = [calls EXCEPT ![r] = Append(@, "synthesize")]
    /\ \E out \in SpeechOutcomes(r) :
        /\ audio_response' = [audio_response EXCEPT ![r] = out]
        /\ IF out.kind = "audio" THEN
            /\ decoded_audio' = [decoded_audio EXCEPT ![r] = out.decoded]
            /\ previous_audio' = [previous_audio EXCEPT ![r] = audio[audio_filename(r)]]
            /\ offset' = [offset EXCEPT ![r] = 0]
            /\ audio' = [audio EXCEPT ![audio_filename(r)] = File(<<>>)]
            /\ pc' = [pc EXCEPT ![r] = "writing"]
            /\ UNCHANGED audio_file
           ELSE
            /\ audio_file' = [audio_file EXCEPT ![r] = None]
            /\ pc' = [pc EXCEPT ![r] = "remove"]
            /\ UNCHANGED <<audio, writer>>
    /\ UNCHANGED <<req, download, translate_response, uploads, document_text,
                   english_summary, translated_summary, loopvars, removed, response,
                   served>>

\* Line 119: f.write(decoded_audio) reaches the file in one or more writes
\* at the position of this handler's own file object.
WriteAudio(r) ==
    /\ pc[r] = "writing"
    /\ offset[r] < Len(decoded_audio[r])
    /\ \E n \in 1..(Len(decoded_audio[r]) - offset[r]) :
        /\ audio' = [audio EXCEPT ![audio_filename(r)] =
              File(WriteAt(@.data, offset[r],
                           SubSeq(decoded_audio[r], offset[r] + 1, offset[r] + n)))]
        /\ offset' = [offset EXCEPT ![r] = @ + n]
    /\ UNCHANGED <<req, download, answers, pc, uploads, locals, loopvars, decoded_audio, previous_audio,
                   calls, removed, response, served>>

\* Lines 118-120: the with block ends (close) and the file name is returned.
CloseAudio(r) ==
    /\ pc[r] = "writing"
    /\ offset[r] = Len(decoded_audio[r])
    /\ audio_file' = [audio_file EXCEPT ![r] = Str(audio_filename(r))]
    /\ pc' = [pc EXCEPT ![r] = "remove"]
    /\ UNCHANGED <<req, download, answers, uploads, audio, document_text, english_summary,
                   translated_summary, loopvars, writer, calls, removed, response,
                   served>>

\* A handler that removes the upload only when the audio was generated.
Remove_mut(r) ==
    /\ pc[r] = "remove"
    /\ IF ~Truthy(audio_file[r]) THEN
            /\ Finish(r, Reply(500, "Could not generate audio file."))
            /\ UNCHANGED <<removed, uploads>>
       ELSE IF uploads[req[r].filename].exists THEN
            /\ removed' = [removed EXCEPT ![r] = uploads[req[r].filename]]
            /\ uploads' = [uploads EXCEPT ![req[r].filename] = NoFile]
            /\ Finish(r, Page(translated_summary[r].val, audio_file[r].val))
       ELSE
            /\ Finish(r, Reply(500, "Internal Server Error"))
            /\ UNCHANGED <<removed, uploads>>
    /\ UNCHANGED <<req, download, answers, audio, locals, loopvars, writer, calls, served>>

\* index(), lines 161-166: os.remove(pdf_path), then the page or the error.
\* os.remove of a missing file raises FileNotFoundError, which nothing
\* catches: Flask answers 500.
Remove(r) ==
    /\ pc[r] = "remove"
    /\ IF uploads[req[r].filename].exists THEN
            /\ removed' = [removed EXCEPT ![r] = uploads[req[r].filename]]
            /\ uploads' = [uploads EXCEPT ![req[r].filename] = NoFile]
            /\ IF Truthy(audio_file[r])
               THEN Finish(r, Page(translated_summary[r].val, audio_file[r].val))
               ELSE Finish(r, Reply(500, "Could not generate audio file."))
       ELSE
            /\ Finish(r, Reply(500, "Internal Server Error"))
            /\ UNCHANGED <<removed, uploads>>
    /\ UNCHANGED <<req, download, answers, audio, locals, loopvars, writer, calls, served>>

\* The requests whose synthesis has the file open for writing.
Writing(name) == {r \in Requests : pc[r] = "writing" /\ audio_filename(r) = name}

\* serve_audio, lines 170-172: send_from_directory of the file as it is.
\* The downloading client sends one GET.
ServeAudio ==
    /\ served = None
    /\ served' = IF audio[download].exists
                 THEN [status |-> 200, body |-> audio[download].data,
                       during |-> Writing(download)]
                 ELSE [status |-> 404, body |-> <<>>, during |-> Writing(download)]
    /\ UNCHANGED <<req, download, answers, pc, uploads, audio, locals, loopvars, writer, calls,
                   removed, response>>

\* The next step of the handler of r.
Step(r) ==
    \/ Index(r)
    \/ Extract(r)
    \/ Summarize(r)
    \/ AttemptSucceeds(r)
    \/ AttemptRateLimited(r)
    \/ AttemptFails(r)
    \/ Translate(r)
    \/ Synthesize(r)
    \/ WriteAudio(r)
    \/ CloseAudio(r)
    \/ Remove(r)

Next ==
    \/ \E r \in Requests : Step(r)
    \/ ServeAudio

Spec == Init /\ [][Next]_vars
SpecConcurrent == InitConcurrent /\ [][Next]_vars

\* One request, whatever it is, on an empty audio directory.
InitFresh ==
    /\ Init
    /\ download = AudioFilename(DefaultLanguage)
    /\ \A n \in AudioNames : ~audio[n].exists

\* A handler that can take a step takes it: every external call, every
\* sleep and every file operation returns.
FairSpec == InitFresh /\ [][Next]_vars /\ \A r \in Requests : WF_vars(Step(r))

\* ------------------------------------------------------------ properties
Pipeline == <<"extract", "summarize", "translate", "synthesize">>

IsPrefix(s, t) == Len(s) <= Len(t) /\ SubSeq(t, 1, Len(s)) = s

Invoked(r, component) == \E k \in 1..Len(calls[r]) : calls[r][k] = component

\* A non-empty string: what a component returns when it succeeds.
NonEmpty(v) == v # None /\ v.val # <<>>

\* The request passes the validation of index() and its file is saved.
ValidUpload(q) ==
    /\ q.method = "POST"
    /\ q.has_part
    /\ q.filename # <<>>
    /\ EndsWith(q.filename, PdfSuffix)

\* The summarizer of r has been called and has returned.
SummarizerReturned(r) == Invoked(r, "summarize") /\ pc[r] # "attempt"

\* Every attempt the summarizer of r has made was rate-limited.
AllRateLimited(r) == Invoked(r, "summarize") /\ Len(slept[r]) = attempts[r]

\* The kind of failure a finished request ended in, "" when in none.
FailureKind(r) ==
    IF ~ValidUpload(req[r]) THEN "InvalidRequest"
    ELSE IF ~NonEmpty(document_text[r]) THEN "ExtractionFailure"
    ELSE IF ~NonEmpty(english_summary[r]) THEN "SummarizationFailure"
    ELSE IF ~NonEmpty(translated_summary[r]) THEN "TranslationFailure"
    ELSE IF ~NonEmpty(audio_file[r]) THEN "SynthesisFailure"
    ELSE ""

StatusOf(kind) == IF kind \in {"InvalidRequest", "ExtractionFailure"} THEN 400 ELSE 500

\* C1: every POST that fails is answered with the status of its failure
\* kind: 400 for an invalid request (no pdf_file part, empty file name, a
\* file name that does not end in .pdf) and for an extraction failure, 500
\* for a summarization, translation or synthesis failure.
C1_FailureStatus ==
    \A r \in Requests :
        (pc[r] = "done" /\ req[r].method = "POST" /\ FailureKind(r) # "")
            => response[r].status = StatusOf(FailureKind(r))

\* C2: when every attempt is rate-limited the summarizer makes exactly 5
\* attempts and then returns failure; when the first attempt that is not
\* rate-limited succeeds as attempt k, the summarizer returns after exactly
\* k attempts, 1 <= k <= 5, and makes no further call.
C2_AttemptCount ==
    \A r \in Requests :
        /\ AllRateLimited(r) =>
              IF pc[r] = "attempt" THEN attempts[r] < 5
              ELSE /\ attempts[r] = 5
                   /\ english_summary[r] = None
                   /\ pc[r] = "done"
                   /\ response[r].status = 500
        /\ english_summary[r] # None =>
              /\ attempts[r] = Len(slept[r]) + 1
              /\ attempts[r] \in 1..5
              /\ pc[r] # "attempt"

\* Five rate-limited attempts, and the permanent failure after them.
C2_Witness ==
    \E r \in Requests :
        /\ attempts[r] = 5
        /\ AllRateLimited(r)
        /\ SummarizerReturned(r)
        /\ english_summary[r] = None

\* C3: when every attempt is rate-limited the delays waited are exactly
\* 2, 4, 8, 16, one between each pair of successive attempts, and none
\* after the fifth attempt.
C3_BackoffDelays ==
    \A r \in Requests :
        AllRateLimited(r) =>
            /\ IsPrefix(slept[r], <<2, 4, 8, 16>>)
            /\ SummarizerReturned(r) => slept[r] = <<2, 4, 8, 16>>

\* C4: an attempt that fails with another kind than rate-limit ends the
\* summarizer at once with failure: no further attempt and no delay after
\* it, whether first or after rate-limited attempts.
C4_FailFast ==
    \A r \in Requests :
        /\ attempts[r] <= Len(slept[r]) + 1
        /\ (attempts[r] = Len(slept[r]) + 1 /\ english_summary[r] = None) =>
              /\ pc[r] = "done"
              /\ response[r].status = 500
              /\ calls[r] = <<"extract", "summarize">>

\* A failure of another kind at the third attempt, after two rate-limited.
C4_Witness ==
    \E r \in Requests :
        /\ slept[r] = <<2, 4>>
        /\ attempts[r] = 3
        /\ english_summary[r] = None
        /\ pc[r] = "done"

\* C5: for every request that saved an uploaded PDF, the uploaded file no
\* longer exists once the request has returned its response.
C5_UploadDeleted ==
    \A r \in Requests :
        (pc[r] = "done" /\ ValidUpload(req[r])) => ~uploads[req[r].filename].exists

\* C6: the components run in the order extract, summarize, translate,
\* synthesize; each is invoked only after every earlier one succeeded; the
\* result page is rendered only when all four succeeded, and it shows the
\* translated summary.
C6_StrictOrder ==
    \A r \in Requests :
        /\ IsPrefix(calls[r], Pipeline)
        /\ Invoked(r, "summarize") => NonEmpty(document_text[r])
        /\ Invoked(r, "translate") => NonEmpty(english_summary[r])
        /\ Invoked(r, "synthesize") => NonEmpty(translated_summary[r])
        /\ (pc[r] = "done" /\ response[r].body = "result") =>
              /\ calls[r] = Pipeline
              /\ NonEmpty(audio_file[r])
              /\ response[r].summary = translated_summary[r].val
        /\ (pc[r] = "done" /\ FailureKind(r) # "") => response[r].body # "result"

\* A request whose translation failed: three components invoked, no fourth.
C6_Witness ==
    \E r \in Requests :
        /\ pc[r] = "done"
        /\ calls[r] = <<"extract", "summarize", "translate">>
        /\ ~NonEmpty(translated_summary[r])
        /\ response[r].status = 500

\* C7: the summarizer is never invoked with extracted text that is empty
\* or consists only of whitespace.
C7_NoBlankTextDownstream ==
    \A r \in Requests :
        Invoked(r, "summarize") =>
            /\ NonEmpty(document_text[r])
            /\ ~IsWhitespace(document_text[r].val)

\* The synthesis of r has written its audio and closed the file.
Synthesized(r) == pc[r] \in {"remove", "done"} /\ NonEmpty(audio_file[r])

\* C8: when two requests with the same language code have both written
\* different audio to the same path and finished, the file holds exactly
\* the complete audio of one of the two.
C8_LastWriterWins ==
    \A r1, r2 \in Requests :
        ( /\ r1 # r2
          /\ Synthesized(r1) /\ Synthesized(r2)
          /\ audio_filename(r1) = audio_filename(r2)
          /\ decoded_audio[r1] # decoded_audio[r2] )
        => audio[audio_filename(r1)].data \in {decoded_audio[r1], decoded_audio[r2]}

\* C9: two concurrent requests with different language codes, whatever
\* their file names: each extracts the text of its own upload, deletes only
\* its own upload, and is answered as if it had run alone (the unhandled
\* error of os.remove is no answer of a request that runs alone).
C9_Isolation ==
    \A r1, r2 \in Requests :
        ( /\ r1 # r2
          /\ ValidUpload(req[r1]) /\ ValidUpload(req[r2])
          /\ language_code(r1) # language_code(r2) )
        => /\ Invoked(r1, "extract") =>
                document_text[r1] = extract_text_from_pdf(File(req[r1].doc))
           /\ removed[r1] \in {NoFile, File(req[r1].doc)}
           /\ pc[r1] = "done" => response[r1].body # "Internal Server Error"

ServedFile == IF served.status = 200 THEN File(served.body) ELSE NoFile

\* C10: a GET of an audio file that runs while a synthesis is writing that
\* file returns the complete previous content or the complete new content.
C10_NoPartialAudioServed ==
    served # None =>
        \A r \in served.during :
            ServedFile \in {previous_audio[r], File(decoded_audio[r])}
\* The translator of r has answered, and how.
Translated(r) == translate_response[r] # None
LacksField(r) == Translated(r) /\ ~translate_response[r].raised /\ ~translate_response[r].has_text
Raised(r) == Translated(r) /\ translate_response[r].raised
EmptyTranslation(r) ==
    /\ Translated(r)
    /\ ~translate_response[r].raised
    /\ translate_response[r].has_text
    /\ translate_response[r].translated_text = <<>>

\* The request of r ended in the translation failure.
TranslationFailed(r) ==
    /\ pc[r] = "done"
    /\ calls[r] = <<"extract", "summarize", "translate">>
    /\ response[r].status = 500

\* The request of r went on to speech synthesis with the text v.
ProceedsWith(r, v) ==
    /\ translated_summary[r] = Str(v)
    /\ pc[r] = "synthesize" \/ Invoked(r, "synthesize")

\* C11 as stated: a response that lacks the translated-text field is no
\* failure, the request proceeds to synthesis with the rendering of the raw
\* response; only a raised error of the call yields the translation failure.
C11_OnlyRaiseFails ==
    \A r \in Requests :
        /\ LacksField(r) => ProceedsWith(r, <<"R">>)
        /\ Raised(r) => TranslationFailed(r)
        /\ TranslationFailed(r) => Raised(r)

\* C11 as amended: a response that lacks the translated-text field is no
\* failure, the request proceeds to synthesis with the rendering of the raw
\* response; a raised error of the call, or a translated text that is
\* empty, and nothing else, yields the translation failure.
C11_LenientTranslator ==
    \A r \in Requests :
        /\ LacksField(r) => ProceedsWith(r, <<"R">>)
        /\ Raised(r) => TranslationFailed(r)
        /\ EmptyTranslation(r) => TranslationFailed(r)
        /\ TranslationFailed(r) => (Raised(r) \/ EmptyTranslation(r))

\* A response without the field, and the page rendered with its rendering.
C11_Witness ==
    \E r \in Requests :
        /\ LacksField(r)
        /\ pc[r] = "done"
        /\ response[r].body = "result"
        /\ response[r].summary = <<"R">>
\* A POST that fails the validation of index().
InvalidPost(q) == q.method = "POST" /\ ~ValidUpload(q)

\* C12: a request that fails validation (no pdf_file part, empty file
\* name, a file name not ending in .pdf) leaves the upload directory and
\* the audio directory unchanged and invokes none of the four components.
C12_ValidationFrame ==
    /\ [][\A r \in Requests :
            (InvalidPost(req[r]) /\ pc[r] = "start" /\ pc'[r] # "start") =>
                /\ uploads' = uploads
                /\ audio' = audio
                /\ pc'[r] = "done"]_vars
    /\ [](\A r \in Requests :
            InvalidPost(req[r]) => (calls[r] = <<>> /\ pc[r] \in {"start", "done"}))

\* An upload named a.txt, answered.
C12_Witness ==
    \E r \in Requests :
        /\ req[r].method = "POST"
        /\ req[r].has_part
        /\ req[r].filename = TxtA
        /\ pc[r] = "done"
        /\ calls[r] = <<>>
\* No page of the document yields text, or the file cannot be parsed.
Textless(doc) ==
    ~doc.readable \/ \A k \in 1..Len(doc.pages) : doc.pages[k] = <<>>

\* C13: for a PDF in which no page has extractable text, and for a file
\* that cannot be opened or parsed, the request is answered with the 400
\* extraction error, no summarization, translation or synthesis call is
\* made, and no audio file is written.
C13_TextlessIsFailure ==
    \A r \in Requests :
        (ValidUpload(req[r]) /\ Textless(req[r].doc) /\ Invoked(r, "extract")) =>
            /\ ~NonEmpty(document_text[r])
            /\ pc[r] = "done"
            /\ response[r] = Reply(400, "Could not extract text from the PDF.")
            /\ calls[r] = <<"extract">>
            /\ attempts[r] = 0
            /\ translate_response[r] = None
            /\ audio_response[r] = None
            /\ \A n \in AudioNames : audio[n] \in {NoFile, File(OldAudio)}

\* A PDF of two pages without text, answered.
C13_Witness ==
    \E r \in Requests :
        /\ ValidUpload(req[r])
        /\ req[r].doc = Pdf(<<<<>>, <<>>>>)
        /\ pc[r] = "done"
        /\ response[r].status = 400
\* The speech response of r carried no audio data.
NoAudioData(r) == audio_response[r] # None /\ audio_response[r].kind = "no_audios"

\* C14: when the speech response carries no audio data, the synthesizer
\* fails without creating or modifying any file of the audio directory, and
\* the request is answered with 500 and not with the result page.
C14_NoAudioNoFile ==
    /\ [][\A r \in Requests :
            (audio_response'[r] # audio_response[r]
                /\ audio_response'[r].kind = "no_audios") =>
                    /\ audio' = audio
                    /\ audio_file'[r] = None]_vars
    /\ [](\A r \in Requests :
            NoAudioData(r) =>
                /\ audio_file[r] = None
                /\ pc[r] \in {"remove", "done"}
                /\ pc[r] = "done" =>
                      (response[r].status = 500 /\ response[r].body # "result"))

\* A speech response without audio data, answered with 500.
C14_Witness ==
    \E r \in Requests :
        /\ NoAudioData(r)
        /\ pc[r] = "done"
        /\ response[r] = Reply(500, "Could not generate audio file.")
\* The language code the form of r carries, "hi" when it carries none.
FormLanguage(r) ==
    IF req[r].language_code = "absent" THEN "hi" ELSE req[r].language_code

\* C15: the audio file a request writes and names in its result page is
\* summary_<language_code>.mp3, whatever the uploaded file and the request;
\* without a language_code in the form it is summary_hi.mp3.
C15_AudioNameFromLanguage ==
    \A r \in Requests :
        LET name == <<"summary_", FormLanguage(r), ".mp3">> IN
        /\ audio_file[r] # None => audio_file[r] = Str(name)
        /\ (pc[r] = "done" /\ response[r].body = "result") =>
              response[r].audio_url = name
        /\ (audio_response[r] # None /\ audio_response[r].kind = "audio") =>
              /\ name \in DOMAIN audio
              /\ audio[name].exists
              /\ pc[r] \in {"remove", "done"} => audio[name].data = decoded_audio[r]

\* A form without language_code, and the page that names summary_hi.mp3.
C15_Witness ==
    \E r \in Requests :
        /\ ValidUpload(req[r])
        /\ req[r].language_code = "absent"
        /\ pc[r] = "done"
        /\ response[r].body = "result"
        /\ response[r].audio_url = <<"summary_", "hi", ".mp3">>
\* How many times the handler of r has invoked a component.
Invocations(r, component) ==
    Cardinality({k \in 1..Len(calls[r]) : calls[r][k] = component})

\* C16: within one request the extractor, the translator and the speech
\* synthesizer are each invoked at most once; only the summarization
\* endpoint can be called more than once, and it is called at most 5 times.
C16_SingleAttempts ==
    \A r \in Requests :
        /\ Invocations(r, "extract") <= 1
        /\ Invocations(r, "summarize") <= 1
        /\ Invocations(r, "translate") <= 1
        /\ Invocations(r, "synthesize") <= 1
        /\ Len(calls[r]) <= 4
        /\ attempts[r] <= 5
        /\ translate_response[r] # None => Invocations(r, "translate") = 1
        /\ audio_response[r] # None => Invocations(r, "synthesize") = 1

\* A finished request whose summarizer called the endpoint five times and
\* whose other components ran once each.
C16_Witness ==
    \E r \in Requests :
        /\ pc[r] = "done"
        /\ attempts[r] = 5
        /\ calls[r] = Pipeline
\* The handler of r has deleted the file it uploaded, and the file is gone.
Deleted(r) == removed[r] = File(req[r].doc) /\ ~uploads[req[r].filename].exists

\* The handler of r has deleted nothing, and the file it uploaded is there.
Kept(r) == removed[r] = NoFile /\ uploads[req[r].filename] = File(req[r].doc)

OwnPath(r) ==
    \A o \in Requests \ {r} :
        ValidUpload(req[o]) => req[o].filename # req[r].filename

C18_Terminates ==
    /\ \A r \in Requests : (pc[r] = "start") ~> (pc[r] = "done")
    /\ [][\A r \in Requests : response[r] # None => response'[r] = response[r]]_vars
    /\ [](\A r \in Requests : (pc[r] = "done") <=> (response[r] # None))

\* A request answered after an endpoint that was rate-limited at each call.
C18_Witness ==
    \E r \in Requests :
        /\ req[r].method = "POST"
        /\ pc[r] = "done"
        /\ slept[r] = <<2, 4, 8, 16, 32>>
        /\ response[r] = Reply(500, "Error: Could not generate summary from Gemini.")
====
